---- MODULE Spec2Model ----
(***************************************************************************)
(* A model of the binary TLV codec of protocol.go: the LEB128 varint       *)
(* codec, the recursive value encoder and the recursive value decoder.     *)
(*                                                                         *)
(* A byte is a number in 0..255 and a Go string or []byte is a sequence of *)
(* bytes.  TLC's integers are 32 bits wide, so a uint64 is kept as four    *)
(* 16-bit limbs, least significant first, and Go's int (64 bits on the     *)
(* linux build of the Dockerfile) is the same four limbs read as two's     *)
(* complement.                                                             *)
(***************************************************************************)
EXTENDS Integers, Sequences, FiniteSets, TLC

VARIABLES
    pc,        \* position of the caller: "idle", "ready", "wire", "craft",
               \* "decoded" (bytes of encode), "decodedCraft" (crafted bytes);
               \* "readyOpen", "wireOpen", "decodedOpen" when the value built
               \* is a Go value outside the four shapes of the value model
    toSend,    \* the value handed to encode
    received,  \* the byte string handed to decode
    change,    \* what happened to the encoder's output before it was decoded
    chunks,    \* number of bytes and varints a crafting sender has written
    out,       \* outcome of the call decodeElement(data, 0) made by decode
    result,    \* what decode hands to its caller
    vpc,       \* position of the varint caller: "idle", "number", "bytes", "done"
    vn,        \* the uint64 handed to encodeVarint
    vdata,     \* the bytes handed to decodeVarint
    vsrc,      \* where vdata came from: "none", "encodeVarint", "crafted"
    vout,      \* outcome of decodeVarint(vdata)
    bpc,       \* position of EncodeBatch: "idle", "sequential", "spawn",
               \* "wait", "returned"
    workers,   \* b.workers
    inputs,    \* the slice handed to EncodeBatch
    results,   \* the slice EncodeBatch fills and returns
    writers,   \* per index of results, who has assigned it so far, in order:
               \* a goroutine's number, or -1 for the caller's own loop
    idx,       \* the index of the caller's sequential loop
    spawned,   \* the counter w of the spawning loop
    wg,        \* the counter of the sync.WaitGroup
    goroutines \* per started goroutine its range and position

vars ==
    <<pc, toSend, received, change, chunks, out, result, vpc, vn, vdata, vsrc, vout,
      bpc, workers, inputs, results, writers, idx, spawned, wg, goroutines>>

codecVars == <<pc, toSend, received, change, chunks, out, result>>
varintVars == <<vpc, vn, vdata, vsrc, vout>>
batchVars == <<bpc, workers, inputs, results, writers, idx, spawned, wg, goroutines>>

----------------------------------------------------------------------------
(* Bounds of the model. *)

\* deepest chain of nested lists handed to encode
MaxDepth == 8

\* longest run of continuation bytes written into a crafted varint
MaxContinuation == 11
\* number of bytes written after the continuation bytes of a crafted varint
MaxTail == 1
\* most nodes (scalars and lists) of a nested value handed to encode
MaxNodes == 4
\* most bytes and varints a crafting sender writes
MaxChunks == 4
\* most bytes appended after an encoded value
MaxTrailing == 1

----------------------------------------------------------------------------
(* Bytes and bit operations. *)

Byte == 0..255

RECURSIVE BitOr(_, _)
BitOr(a, b) ==
    IF a = 0 THEN b
    ELSE IF b = 0 THEN a
    ELSE (IF a % 2 = 1 \/ b % 2 = 1 THEN 1 ELSE 0) + 2 * BitOr(a \div 2, b \div 2)

RECURSIVE BitAnd(_, _)
BitAnd(a, b) ==
    IF a = 0 \/ b = 0 THEN 0
    ELSE (IF a % 2 = 1 /\ b % 2 = 1 THEN 1 ELSE 0) + 2 * BitAnd(a \div 2, b \div 2)

----------------------------------------------------------------------------
(* uint64 and int as four 16-bit limbs, least significant limb first. *)

LimbBase == 2^16

\* the uint64 (or non-negative int) of a small natural number
U64Of(k) == <<k % LimbBase, (k \div LimbBase) % LimbBase, 0, 0>>

Zero64 == U64Of(0)

\* byte(n): the low 8 bits
LowByte(n) == n[1] % 256

\* n >> 7
Shr7(n) ==
    << (n[1] \div 128) + (n[2] % 128) * 512,
       (n[2] \div 128) + (n[3] % 128) * 512,
       (n[3] \div 128) + (n[4] % 128) * 512,
       n[4] \div 128 >>

\* uint64(x) << shift for a byte x: bits shifted past bit 63 are lost, and Go
\* gives 0 for a shift count of 64 or more
Shl64(x, shift) ==
    LET q == shift \div 16
        w == x * 2^(shift % 16)
    IN  [i \in 1..4 |-> IF i = q + 1 THEN w % LimbBase
                        ELSE IF i = q + 2 THEN (w \div LimbBase) % LimbBase
                        ELSE 0]

\* a | b on uint64
Or64(a, b) == [i \in 1..4 |-> BitOr(a[i], b[i])]

\* a + b on 64 bits, wrapping
Add64(a, b) ==
    LET s1 == a[1] + b[1]
        s2 == a[2] + b[2] + s1 \div LimbBase
        s3 == a[3] + b[3] + s2 \div LimbBase
        s4 == a[4] + b[4] + s3 \div LimbBase
    IN  <<s1 % LimbBase, s2 % LimbBase, s3 % LimbBase, s4 % LimbBase>>

\* a > b on uint64
Gt64(a, b) ==
    \E i \in 1..4 : a[i] > b[i] /\ \A j \in (i+1)..4 : a[j] = b[j]

\* the sign bit of an int
IsNeg(a) == a[4] >= 2^15

\* a > b on int (two's complement)
GtInt(a, b) ==
    IF IsNeg(a) # IsNeg(b) THEN IsNeg(b) ELSE Gt64(a, b)

\* a is at most 2^31 - 1, the largest number TLC computes with
IsSmall(a) == a[2] < 2^15 /\ a[3] = 0 /\ a[4] = 0

\* the natural number of an int known to be small and non-negative
NatOf(a) == a[1] + a[2] * LimbBase

----------------------------------------------------------------------------
(* The varint codec. *)

\* the loop test as n > 0x80
MoreBytes_OffByOne(n) == n[1] > 128 \/ n[2] # 0 \/ n[3] # 0 \/ n[4] # 0

\* `for n >= 0x80`
MoreBytes(n) == n[1] >= 128 \/ n[2] # 0 \/ n[3] # 0 \/ n[4] # 0

\* `buf[i] = byte(n) | 0x80`
ContinuationByte(n) == BitOr(LowByte(n), 128)

RECURSIVE encodeVarint(_)
encodeVarint(n) ==
    IF MoreBytes(n)
    THEN <<ContinuationByte(n)>> \o encodeVarint(Shr7(n))
    ELSE <<LowByte(n)>>

\* the limit as i > 10
TooLong_OffByOne(i) == i > 10

\* `if i > 9`
TooLong(i) == i > 9

\* the byte accumulated with its continuation bit
Accumulate_NoMask(n, b, shift) == Or64(n, Shl64(b, shift))

\* `n |= uint64(b&0x7F) << shift`
Accumulate(n, b, shift) == Or64(n, Shl64(BitAnd(b, 127), shift))

\* `if b < 0x80`
IsLastByte(b) == b < 128

\* the failure returned without its error
VarintFail_NoError(msg) == [n |-> Zero64, consumed |-> 0, err |-> "nil"]

VarintFail(msg) == [n |-> Zero64, consumed |-> 0, err |-> msg]

\* the loop of decodeVarint from index i (0-based) on
RECURSIVE decodeVarintLoop(_, _, _, _)
decodeVarintLoop(data, i, n, shift) ==
    IF i >= Len(data) THEN VarintFail("incomplete varint")
    ELSE IF TooLong(i) THEN VarintFail("varint too long")
    ELSE LET b == data[i + 1]
             m == Accumulate(n, b, shift)
         IN  IF IsLastByte(b)
             THEN [n |-> m, consumed |-> i + 1, err |-> "nil"]
             ELSE decodeVarintLoop(data, i + 1, m, shift + 7)

decodeVarint(data) == decodeVarintLoop(data, 0, Zero64, 0)

----------------------------------------------------------------------------
(* The value model: what a Go interface{} holds.  Every value is a record   *)
(* of the same shape; type says which field counts.                        *)

TypeString == 1
TypeInt32 == 2
TypeDataInput == 3
TypeNull == 0

Nil == [type |-> "nil", str |-> <<>>, int |-> 0, elements |-> <<>>]
String(s) == [type |-> "string", str |-> s, int |-> 0, elements |-> <<>>]
Int32(i) == [type |-> "int32", str |-> <<>>, int |-> i, elements |-> <<>>]
NewDataInput(elements) ==
    [type |-> "*DataInput", str |-> <<>>, int |-> 0, elements |-> elements]
\* a Go int, which an untyped constant in NewDataInput("a", 42) becomes: a
\* type encodeElement has no case for
GoInt(i) == [type |-> "int", str |-> <<>>, int |-> i, elements |-> <<>>]

MaxInt32 == 2147483647
MinInt32 == -MaxInt32 - 1

----------------------------------------------------------------------------
(* utf8.ValidString of the Go library. *)

IsCont(b) == b \in 128..191

\* the number of bytes of the encoded rune that starts s at index i, or 0
\* when no well-formed rune starts there
RuneLen(s, i) ==
    LET b == s[i]
        has(k) == i + k <= Len(s)
        second(lo, hi) == has(1) /\ s[i + 1] \in lo..hi
        cont(k) == has(k) /\ IsCont(s[i + k])
    IN  IF b < 128 THEN 1
        ELSE IF b \in 194..223 THEN (IF second(128, 191) THEN 2 ELSE 0)
        ELSE IF b = 224 THEN (IF second(160, 191) /\ cont(2) THEN 3 ELSE 0)
        ELSE IF b \in (225..236) \cup (238..239)
             THEN (IF second(128, 191) /\ cont(2) THEN 3 ELSE 0)
        ELSE IF b = 237 THEN (IF second(128, 159) /\ cont(2) THEN 3 ELSE 0)
        ELSE IF b = 240
             THEN (IF second(144, 191) /\ cont(2) /\ cont(3) THEN 4 ELSE 0)
        ELSE IF b \in 241..243
             THEN (IF second(128, 191) /\ cont(2) /\ cont(3) THEN 4 ELSE 0)
        ELSE IF b = 244
             THEN (IF second(128, 143) /\ cont(2) /\ cont(3) THEN 4 ELSE 0)
        ELSE 0

\* s is a concatenation of well-formed runes: every byte that is not a
\* continuation byte starts a well-formed rune, and every continuation byte
\* belongs to the rune started by the nearest such byte before it
ValidString(s) ==
    \A i \in 1..Len(s) :
        IF IsCont(s[i])
        THEN \E j \in (i - 3)..(i - 1) :
                /\ j >= 1
                /\ ~IsCont(s[j])
                /\ RuneLen(s, j) > i - j
                /\ \A m \in (j + 1)..(i - 1) : IsCont(s[m])
        ELSE RuneLen(s, i) # 0

----------------------------------------------------------------------------
(* The encoder. *)

\* the conversion keeping the low 16 bits only
Uint32_Low(v) == <<v % LimbBase, 0>>

\* uint32(v) as two 16-bit limbs
Uint32(v) == <<v % LimbBase, (v \div LimbBase) % LimbBase>>

\* the bytes written most significant first
PutUint32_BigEndian(u) == <<u[2] \div 256, u[2] % 256, u[1] \div 256, u[1] % 256>>

\* binary.LittleEndian.PutUint32
PutUint32(u) == <<u[1] % 256, u[1] \div 256, u[2] % 256, u[2] \div 256>>

\* the length counted in characters: the bytes that start a rune
LengthPrefix_Runes(bytes) ==
    encodeVarint(U64Of(Cardinality({i \in 1..Len(bytes) : ~IsCont(bytes[i])})))

\* `buf.Write(encodeVarint(uint64(len(bytes))))`
LengthPrefix(bytes) == encodeVarint(U64Of(Len(bytes)))

\* the count one too large
CountPrefix_PlusOne(elements) == encodeVarint(U64Of(Len(elements) + 1))

\* `buf.Write(encodeVarint(uint64(len(v.elements))))`
CountPrefix(elements) == encodeVarint(U64Of(Len(elements)))

RECURSIVE encodeElement(_, _)
RECURSIVE encodeElements(_, _, _)

\* the range loop of the *DataInput case from element i (1-based) on
encodeElements(buf, elements, i) ==
    IF i > Len(elements) THEN [data |-> buf, err |-> "nil"]
    ELSE LET r == encodeElement(buf, elements[i])
         IN  IF r.err # "nil" THEN r
             ELSE encodeElements(r.data, elements, i + 1)

\* the buffer after the call and the error returned
encodeElement(buf, elem) ==
    CASE elem.type = "string" ->
            [data |-> buf \o <<TypeString>> \o LengthPrefix(elem.str) \o elem.str,
             err |-> "nil"]
      [] elem.type = "int32" ->
            [data |-> buf \o <<TypeInt32>> \o PutUint32(Uint32(elem.int)),
             err |-> "nil"]
      [] elem.type = "*DataInput" ->
            encodeElements(buf \o <<TypeDataInput>> \o CountPrefix(elem.elements),
                           elem.elements, 1)
      [] elem.type = "nil" ->
            [data |-> buf \o <<TypeNull>>, err |-> "nil"]
      [] OTHER ->
            [data |-> buf, err |-> "unsupported type"]

\* encode drops the error of encodeElement and returns the buffer
encode(v) == encodeElement(<<>>, v).data

----------------------------------------------------------------------------
(* The decoder.  An outcome is the triple decodeElement returns, the panic  *)
(* that ended the call instead (if any), the offsets at which               *)
(* decodeElement was entered, in order, and the most calls of               *)
(* decodeElement that were active at once, the call itself included.        *)

\* the offset returned one byte short of the bytes consumed
Returned_OneShort(val, off, calls) ==
    [val |-> val, off |-> off - 1, err |-> "nil", panic |-> "none", calls |-> calls,
     depth |-> 1]

Returned(val, off, calls) ==
    [val |-> val, off |-> off, err |-> "nil", panic |-> "none", calls |-> calls,
     depth |-> 1]

Failed(msg, calls) ==
    [val |-> Nil, off |-> 0, err |-> msg, panic |-> "none", calls |-> calls,
     depth |-> 1]

Panicked(msg, calls) ==
    [val |-> Nil, off |-> 0, err |-> "nil", panic |-> msg, calls |-> calls,
     depth |-> 1]

\* before decode is called
NoOutcome ==
    [val |-> Nil, off |-> 0, err |-> "none", panic |-> "none", calls |-> <<>>,
     depth |-> 0]
NoResult == [value |-> Nil, panic |-> "undecoded"]

\* the offset returned for a Text without the length added
StringEnd_NoLength(offset, length) == U64Of(offset)

\* `offset+int(length)`, an int
StringEnd(offset, length) == Add64(U64Of(offset), length)

\* `if offset+int(length) > len(data)`
ExceedsData(end, len) == GtInt(end, U64Of(len))

\* data[low:high] panics unless 0 <= low <= high <= cap(data); here high is
\* known to be at most len(data)
SliceOutOfRange(low, high) == GtInt(U64Of(low), high)

\* the slice one byte short
Payload_ShortByOne(data, offset, end) == SubSeq(data, offset + 1, NatOf(end) - 1)

\* `string(data[offset : offset+int(length)])`
Payload(data, offset, end) == SubSeq(data, offset + 1, NatOf(end))

\* the switch without its default case: an unassigned tag is taken as Null
Dispatch_NullDefault(typeTag) ==
    CASE typeTag = TypeString -> "TypeString"
      [] typeTag = TypeInt32 -> "TypeInt32"
      [] typeTag = TypeDataInput -> "TypeDataInput"
      [] OTHER -> "TypeNull"

\* `switch typeTag`
Dispatch(typeTag) ==
    CASE typeTag = TypeString -> "TypeString"
      [] typeTag = TypeInt32 -> "TypeInt32"
      [] typeTag = TypeDataInput -> "TypeDataInput"
      [] typeTag = TypeNull -> "TypeNull"
      [] OTHER -> "default"

\* `if offset+4 > len(data)`
Int32Missing(offset, len) == offset + 4 > len

\* the bytes read most significant first
LittleEndianUint32_BigEndian(b) == <<b[4] + 256 * b[3], b[2] + 256 * b[1]>>

\* binary.LittleEndian.Uint32 as two 16-bit limbs
LittleEndianUint32(b) == <<b[1] + 256 * b[2], b[3] + 256 * b[4]>>

\* the conversion without the sign bit
ToInt32_NoSign(u) == (u[2] % 2^15) * LimbBase + u[1]

\* int32(val)
ToInt32(u) ==
    IF u[2] >= 2^15 THEN (u[2] - LimbBase) * LimbBase + u[1]
    ELSE u[2] * LimbBase + u[1]

\* make([]interface{}, 0, count) panics when count * 16 bytes exceed the
\* runtime's maxAlloc of 2^48 bytes (count > 2^44), which takes in every
\* count of 2^63 or more; a request the runtime accepts is taken to succeed
MakeSlicePanics(count) ==
    \/ count[4] # 0
    \/ count[3] > 2^12
    \/ count[3] = 2^12 /\ (count[2] # 0 \/ count[1] # 0)

\* the loop that never runs
MoreElements_None(i, count) == FALSE

\* the loop test stopping one element early
MoreElements_StopEarly(i, count) == GtInt(count, U64Of(i + 1))

\* `i < int(count)`
MoreElements(i, count) == GtInt(count, U64Of(i))

\* the outcome of a call whose deepest child call had `deepest` calls active
Nested(r, deepest) == [r EXCEPT !.depth = 1 + deepest]

Deepest(a, b) == IF a > b THEN a ELSE b

RECURSIVE decodeElement(_, _)
RECURSIVE decodeElements(_, _, _, _, _, _, _)

\* the loop of the TypeDataInput case
decodeElements(data, offset, i, count, elements, calls, deepest) ==
    IF ~MoreElements(i, count)
    THEN Nested(Returned(NewDataInput(elements), offset, calls), deepest)
    ELSE LET r == decodeElement(data, offset)
             d == Deepest(deepest, r.depth)
         IN  IF r.panic # "none" THEN Nested(Panicked(r.panic, calls \o r.calls), d)
             ELSE IF r.err # "nil" THEN Nested(Failed(r.err, calls \o r.calls), d)
             ELSE decodeElements(data, r.off, i + 1, count,
                                 Append(elements, r.val), calls \o r.calls, d)

decodeElement(data, offset) ==
    IF offset >= Len(data) THEN Failed("unexpected end of data", <<offset>>)
    ELSE
    LET typeTag == data[offset + 1]
        o1 == offset + 1
        v == decodeVarint(SubSeq(data, o1 + 1, Len(data)))
        o2 == o1 + v.consumed
        end == StringEnd(o2, v.n)
        str == Payload(data, o2, end)
        case == Dispatch(typeTag)
    IN  CASE case = "TypeString" ->
                IF v.err # "nil" THEN Failed(v.err, <<offset>>)
                ELSE IF ExceedsData(end, Len(data))
                     THEN Failed("string length exceeds data", <<offset>>)
                ELSE IF SliceOutOfRange(o2, end)
                     THEN Panicked("slice bounds out of range", <<offset>>)
                ELSE IF ~ValidString(str)
                     THEN Failed("invalid UTF-8 string", <<offset>>)
                ELSE Returned(String(str), NatOf(end), <<offset>>)
          [] case = "TypeInt32" ->
                IF Int32Missing(o1, Len(data))
                THEN Failed("insufficient data for int32", <<offset>>)
                ELSE Returned(
                        Int32(ToInt32(LittleEndianUint32(SubSeq(data, o1 + 1, o1 + 4)))),
                        o1 + 4, <<offset>>)
          [] case = "TypeDataInput" ->
                IF v.err # "nil" THEN Failed(v.err, <<offset>>)
                ELSE IF MakeSlicePanics(v.n)
                     THEN Panicked("makeslice: cap out of range", <<offset>>)
                ELSE decodeElements(data, o2, 0, v.n, <<>>, <<offset>>, 0)
          [] case = "TypeNull" ->
                Returned(Nil, o1, <<offset>>)
          [] OTHER ->
                Failed("unknown type tag", <<offset>>)

\* decode rejecting input that the first value does not use up
decode_WholeInput(data) ==
    LET r == decodeElement(data, 0)
    IN  IF r.off # Len(data) THEN [value |-> Nil, panic |-> "none"]
        ELSE [value |-> r.val, panic |-> r.panic]

\* decode keeps the value of decodeElement and drops the offset and the
\* error; a panic of decodeElement unwinds through decode
decode(data) ==
    LET r == decodeElement(data, 0)
    IN  [value |-> r.val, panic |-> r.panic]

----------------------------------------------------------------------------
(* compareDataInput. *)

RECURSIVE compareDataInput(_, _)
compareDataInput(a, b) ==
    CASE a.type = "string" -> b.type = "string" /\ a.str = b.str
      [] a.type = "int32" -> b.type = "int32" /\ a.int = b.int
      [] a.type = "*DataInput" ->
            /\ b.type = "*DataInput"
            /\ Len(a.elements) = Len(b.elements)
            /\ \A i \in 1..Len(a.elements) :
                  compareDataInput(a.elements[i], b.elements[i])
      [] a.type = "nil" -> b.type = "nil"
      [] OTHER -> FALSE

----------------------------------------------------------------------------
(* The varint caller: it encodes a number and decodes the bytes, or crafts  *)
(* the bytes itself.                                                       *)

LimbSamples == {0, 1, 127, 128, 2^15 - 1, 2^15, LimbBase - 1}

\* 2^k as a uint64, k in 0..63
Pow2(k) == Shl64(1, k)

\* 2^k - 1 as a uint64, k in 0..64
Pow2Minus1(k) ==
    [i \in 1..4 |-> IF 16 * i <= k THEN LimbBase - 1
                    ELSE IF 16 * (i - 1) >= k THEN 0
                    ELSE 2^(k - 16 * (i - 1)) - 1]

U64Samples ==
    [1..4 -> LimbSamples]
        \cup {Pow2(k) : k \in 0..63}
        \cup {Pow2Minus1(k) : k \in 0..64}

NoVarint == [n |-> Zero64, consumed |-> 0, err |-> "none"]

\* nothing built, received or decoded yet
Init ==
    /\ pc = "idle"
    /\ toSend = Nil
    /\ received = <<>>
    /\ change = "none"
    /\ chunks = 0
    /\ out = NoOutcome
    /\ result = NoResult
    /\ vpc = "idle"
    /\ vn = Zero64
    /\ vdata = <<>>
    /\ vsrc = "none"
    /\ vout = NoVarint
    /\ bpc = "idle"
    /\ workers = 0
    /\ inputs = <<>>
    /\ results = <<>>
    /\ writers = <<>>
    /\ idx = 0
    /\ spawned = 0
    /\ wg = 0
    /\ goroutines = <<>>

PickNumber(n) ==
    /\ vpc = "idle"
    /\ vn' = n
    /\ vpc' = "number"
    /\ UNCHANGED <<vdata, vsrc, vout, codecVars, batchVars>>

EncodeVarint ==
    /\ vpc = "number"
    /\ vdata' = encodeVarint(vn)
    /\ vsrc' = "encodeVarint"
    /\ vpc' = "bytes"
    /\ UNCHANGED <<vn, vout, codecVars, batchVars>>

\* the bytes of s without the continuation bit
Terminators(s) == {j \in 1..Len(s) : s[j] < 128}

\* the caller writes one more byte with the continuation bit set
CraftContinuation(b) ==
    /\ vpc \in {"idle", "craft"}
    /\ Terminators(vdata) = {}
    /\ Len(vdata) < MaxContinuation
    /\ vdata' = Append(vdata, b)
    /\ vsrc' = "crafted"
    /\ vpc' = "craft"
    /\ UNCHANGED <<vn, vout, codecVars, batchVars>>

\* the caller writes a byte without the continuation bit
CraftTail(b) ==
    /\ vpc \in {"idle", "craft"}
    /\ Cardinality(Terminators(vdata)) < MaxTail
    /\ vdata' = Append(vdata, b)
    /\ vsrc' = "crafted"
    /\ vpc' = "craft"
    /\ UNCHANGED <<vn, vout, codecVars, batchVars>>

DecodeVarint ==
    /\ vpc \in {"idle", "bytes", "craft"}
    /\ vout' = decodeVarint(vdata)
    /\ vpc' = "done"
    /\ UNCHANGED <<vn, vdata, vsrc, codecVars, batchVars>>

VarintNext ==
    \/ \E n \in U64Samples : PickNumber(n)
    \/ EncodeVarint
    \/ \E b \in {128, 255} : CraftContinuation(b)
    \/ \E b \in {0, 1, 127} : CraftTail(b)
    \/ DecodeVarint

SpecVarint == Init /\ [][VarintNext]_vars

----------------------------------------------------------------------------
(* Claims about the varint codec, checked under SpecVarint. *)

\* C8 - varint round trip: decoding the bytes encodeVarint produced for n
\* returns, without error, n and the number of bytes encodeVarint produced.
C8_VarintRoundTrip ==
    (vpc = "done" /\ vsrc = "encodeVarint") =>
        vout = [n |-> vn, consumed |-> Len(vdata), err |-> "nil"]

\* a ten-byte encoding (a number of 64 significant bits) has been decoded
C8_Witness ==
    /\ vpc = "done"
    /\ vsrc = "encodeVarint"
    /\ Len(vdata) = 10
    /\ vout.err = "nil"
    /\ vout.n = Pow2Minus1(64)

RECURSIVE BitLen(_)
BitLen(k) == IF k = 0 THEN 0 ELSE 1 + BitLen(k \div 2)

\* the number of significant bits of a uint64
BitsNeeded(n) ==
    IF n = Zero64 THEN 0
    ELSE LET top == CHOOSE i \in 1..4 : n[i] # 0 /\ \A j \in (i+1)..4 : n[j] = 0
         IN  16 * (top - 1) + BitLen(n[top])

VarintSize(n) == IF n = Zero64 THEN 1 ELSE (BitsNeeded(n) + 6) \div 7

\* C9 - varint size and canonicity: encodeVarint(n) has max(1,
\* ceil(bits_needed(n)/7)) bytes, between 1 and 10 (0..127 one byte,
\* 128..16383 two, 16384..2097151 three); every byte but the last has bit
\* 0x80 set, the last has it clear, and the last byte of a multi-byte
\* output is not zero.
C9_VarintSizeCanonical ==
    (vpc = "bytes") =>
        /\ Len(vdata) = VarintSize(vn)
        /\ Len(vdata) \in 1..10
        /\ IsSmall(vn) =>
              /\ (NatOf(vn) <= 127) => Len(vdata) = 1
              /\ (NatOf(vn) \in 128..16383) => Len(vdata) = 2
              /\ (NatOf(vn) \in 16384..2097151) => Len(vdata) = 3
        /\ \A j \in 1..(Len(vdata) - 1) : vdata[j] \in 128..255
        /\ vdata[Len(vdata)] \in 0..127
        /\ Len(vdata) > 1 => vdata[Len(vdata)] # 0

\* 16384, the smallest number of three bytes, has been encoded
C9_Witness ==
    /\ vpc = "bytes"
    /\ vn = U64Of(16384)
    /\ vdata = <<128, 128, 1>>

\* C10 - decodeVarint error outcomes: when the input has no terminating
\* byte among its first ten bytes, decodeVarint fails with "varint too
\* long" if the input has more than ten bytes and with "incomplete varint"
\* if the input ends first, and returns value 0 and 0 bytes consumed.
C10_VarintErrors ==
    (vpc = "done" /\ \A j \in Terminators(vdata) : j > 10) =>
        /\ vout.err = (IF Len(vdata) > 10 THEN "varint too long"
                                           ELSE "incomplete varint")
        /\ vout.n = Zero64
        /\ vout.consumed = 0

\* ten continuation bytes followed by a terminating byte have been decoded
C10_Witness ==
    /\ vpc = "done"
    /\ Len(vdata) = 11
    /\ Terminators(vdata) = {11}
    /\ vout.err = "varint too long"

\* bit k of a uint64; no bit above bit 63
BitOf(n, k) == IF k > 63 THEN 0 ELSE (n[k \div 16 + 1] \div 2^(k % 16)) % 2

\* bits 7i .. 7i+6 of a uint64 as a number
Group7(n, i) ==
    BitOf(n, 7 * i) + 2 * BitOf(n, 7 * i + 1) + 4 * BitOf(n, 7 * i + 2)
        + 8 * BitOf(n, 7 * i + 3) + 16 * BitOf(n, 7 * i + 4)
        + 32 * BitOf(n, 7 * i + 5) + 64 * BitOf(n, 7 * i + 6)

\* C11 - lossless varint decoding: when decodeVarint succeeds after
\* consuming bytes b_0..b_m, the value returned is the exact sum of
\* (b_i AND 0x7F) * 2^(7i): base-128 digit i of the value is the low seven
\* bits of b_i, and the value has no digit beyond the bytes consumed.
C11_LosslessVarint ==
    (vpc = "done" /\ vout.err = "nil") =>
        /\ \A i \in 0..(vout.consumed - 1) : Group7(vout.n, i) = vdata[i + 1] % 128
        /\ \A i \in vout.consumed..9 : Group7(vout.n, i) = 0

----------------------------------------------------------------------------
(* The codec's caller: a sender builds a value and encodes it, the bytes   *)
(* may be cut short, altered in one place or followed by more bytes on the *)
(* way, or a sender crafts the bytes itself; the receiver decodes them.    *)

\* a string of k bytes b
Repeat(b, k) == [i \in 1..k |-> b]

\* scalars that nested values are built from: nil, "é", 42 and -1
SmallScalars == {Nil, String(<<195, 169>>), Int32(42), Int32(-1)}

\* scalars handed to encode on their own: the boundary int32 values, strings
\* of runes of one to four bytes, and strings whose length takes two bytes
TopScalars ==
    {Int32(i) : i \in {0, 1, 123, 255, 256, -12345, MaxInt32, MinInt32}}
        \cup {String(t) : t \in {<<>>, <<65>>, <<104, 101, 108, 108, 111>>,
                                 <<226, 130, 172>>, <<240, 159, 152, 128>>,
                                 Repeat(65, 127), Repeat(65, 128),
                                 Repeat(65, 127) \o <<195, 169>>}}

RECURSIVE ValuesOfSize(_)
RECURSIVE Forests(_)

\* the sequences of values with n nodes in all
Forests(n) ==
    IF n = 0 THEN {<<>>}
    ELSE UNION {{<<v>> \o f : v \in ValuesOfSize(k), f \in Forests(n - k)} :
                   k \in 1..n}

\* the values with exactly n nodes
ValuesOfSize(n) ==
    IF n = 1 THEN SmallScalars \cup {NewDataInput(<<>>)}
    ELSE {NewDataInput(f) : f \in Forests(n - 1)}

\* ["foo", 123] of the README and the nested structure of runTests
FooList == NewDataInput(<<String(<<102, 111, 111>>), Int32(123)>>)
FooBarList ==
    NewDataInput(<<String(<<102, 111, 111>>),
                   NewDataInput(<<String(<<98, 97, 114>>), Int32(42)>>)>>)

\* a chain of d lists, each but the innermost, empty one holding the next
RECURSIVE DeepList(_)
DeepList(d) ==
    IF d = 1 THEN NewDataInput(<<>>) ELSE NewDataInput(<<DeepList(d - 1)>>)

Values ==
    TopScalars \cup {FooList, FooBarList}
        \cup UNION {ValuesOfSize(n) : n \in 1..MaxNodes}
        \cup {DeepList(d) : d \in 1..MaxDepth}

\* Go values encode accepts that are outside the value model: a Go int, and
\* strings that are not well-formed UTF-8
OpenScalars == {GoInt(42), String(<<128>>), String(<<195, 40>>)}

\* the open scalars, the lists of one or two scalars holding one of them,
\* and the lists that hold such a list of one
OpenValues ==
    LET scalars == SmallScalars \cup OpenScalars
        isOpen(f) == \E i \in 1..Len(f) : f[i] \in OpenScalars
        flat == {NewDataInput(f) :
                    f \in {g \in [1..1 -> scalars] \cup [1..2 -> scalars] : isOpen(g)}}
    IN  OpenScalars \cup flat
            \cup {NewDataInput(<<NewDataInput(<<o>>), x>>) :
                      o \in OpenScalars, x \in SmallScalars}

\* bytes a crafting sender writes: the four tags (also the lengths 0..3), an
\* unassigned tag that is an ASCII byte, and a lone UTF-8 continuation byte
\* (also a varint continuation byte)
CraftBytes == {0, 1, 2, 3, 127, 128}

\* lengths and counts a crafting sender declares: 2^64-1, 2^63, 2^63-1
CraftLengths == {Pow2Minus1(64), Pow2(63), Pow2Minus1(63)}

\* bytes written over a byte of an encoded value
CorruptBytes == {0, 3, 127, 128}

\* the sender builds a value
Build(v) ==
    /\ pc = "idle"
    /\ toSend' = v
    /\ pc' = "ready"
    /\ UNCHANGED <<received, change, chunks, out, result, varintVars, batchVars>>

\* the sender builds a Go value outside the value model
BuildOpen(v) ==
    /\ pc = "idle"
    /\ toSend' = v
    /\ pc' = "readyOpen"
    /\ UNCHANGED <<received, change, chunks, out, result, varintVars, batchVars>>

\* encoded := encode(v)
Encode ==
    /\ pc \in {"ready", "readyOpen"}
    /\ received' = encode(toSend)
    /\ pc' = IF pc = "ready" THEN "wire" ELSE "wireOpen"
    /\ UNCHANGED <<toSend, change, chunks, out, result, varintVars, batchVars>>

\* only the first k bytes arrive, k < len(encoded)
Truncate(k) ==
    /\ pc = "wire"
    /\ change = "none"
    /\ k < Len(received)
    /\ received' = SubSeq(received, 1, k)
    /\ change' = "truncated"
    /\ UNCHANGED <<pc, toSend, chunks, out, result, varintVars, batchVars>>

\* byte p arrives as b
Corrupt(p, b) ==
    /\ pc = "wire"
    /\ change = "none"
    /\ p \in 1..Len(received)
    /\ received[p] # b
    /\ received' = [received EXCEPT ![p] = b]
    /\ change' = "corrupted"
    /\ UNCHANGED <<pc, toSend, chunks, out, result, varintVars, batchVars>>

\* byte b arrives after the encoded value
Trail(b) ==
    /\ pc = "wire"
    /\ change \in {"none", "trailing"}
    /\ chunks < MaxTrailing
    /\ received' = Append(received, b)
    /\ change' = "trailing"
    /\ chunks' = chunks + 1
    /\ UNCHANGED <<pc, toSend, out, result, varintVars, batchVars>>

\* a crafting sender writes the byte b
CraftByte(b) ==
    /\ pc \in {"idle", "craft"}
    /\ chunks < MaxChunks
    /\ received' = Append(received, b)
    /\ chunks' = chunks + 1
    /\ pc' = "craft"
    /\ UNCHANGED <<toSend, change, out, result, varintVars, batchVars>>

\* a crafting sender writes n as a length or count
CraftLength(n) ==
    /\ pc \in {"idle", "craft"}
    /\ chunks < MaxChunks
    /\ received' = received \o encodeVarint(n)
    /\ chunks' = chunks + 1
    /\ pc' = "craft"
    /\ UNCHANGED <<toSend, change, out, result, varintVars, batchVars>>

\* decoded := decode(received)
Decode ==
    /\ pc \in {"idle", "wire", "wireOpen", "craft"}
    /\ out' = decodeElement(received, 0)
    /\ result' = decode(received)
    /\ pc' = CASE pc = "wire" -> "decoded"
              [] pc = "wireOpen" -> "decodedOpen"
              [] OTHER -> "decodedCraft"
    /\ UNCHANGED <<toSend, received, change, chunks, varintVars, batchVars>>

Next ==
    \/ \E v \in Values : Build(v)
    \/ \E v \in OpenValues : BuildOpen(v)
    \/ Encode
    \/ \E k \in 0..(Len(received) - 1) : Truncate(k)
    \/ \E p \in 1..Len(received), b \in CorruptBytes : Corrupt(p, b)
    \/ \E b \in CraftBytes : Trail(b)
    \/ \E b \in CraftBytes : CraftByte(b)
    \/ \E n \in CraftLengths : CraftLength(n)
    \/ Decode

Spec == Init /\ [][Next]_vars

----------------------------------------------------------------------------
(* Claims about encode and decode, checked under Spec. *)

Decoded == pc \in {"decoded", "decodedCraft"}

\* C1 - round trip: for every value v of the model, decode(encode(v))
\* succeeds and compareDataInput finds it equal to v.
C1_RoundTrip ==
    (pc = "decoded" /\ change = "none") =>
        /\ result.panic = "none"
        /\ out.err = "nil"
        /\ compareDataInput(toSend, result.value)

\* a list holding a string and a list has made the round trip
C1_Witness ==
    /\ pc = "decoded"
    /\ change = "none"
    /\ toSend = NewDataInput(<<String(<<195, 169>>), NewDataInput(<<Int32(-1)>>)>>)
    /\ received = <<3, 2, 1, 2, 195, 169, 3, 1, 2, 255, 255, 255, 255>>
    /\ result.value = toSend

\* C2 - for every byte sequence, decode does not panic, and a failure
\* reaches decode's caller as an error.
C2_NoPanicTypedError ==
    Decoded =>
        /\ result.panic = "none"
        /\ out.err # "nil" => "err" \in DOMAIN result

\* C3 - a failed decode yields no value: what decode returns on a failure
\* differs from what it returns on every success, so it is not the nil that
\* decoding the Null value returns.
C3_FailureYieldsNoValue ==
    (Decoded /\ out.err # "nil") => result # decode(<<TypeNull>>)

TruncatedInput ==
    {"unexpected end of data", "incomplete varint",
     "string length exceeds data", "insufficient data for int32"}

\* C4 - truncation detection: decoding a proper prefix of encode(v), the
\* empty one included, fails with one of the errors that report missing
\* input, and decodeElement returns no value with it.
C4_TruncationDetected ==
    (pc = "decoded" /\ change = "truncated") =>
        /\ out.panic = "none"
        /\ out.err \in TruncatedInput
        /\ out.val = Nil
        /\ out.off = 0

\* a list cut inside the payload of its second child has been decoded
C4_Witness ==
    /\ pc = "decoded"
    /\ change = "truncated"
    /\ toSend = NewDataInput(<<Nil, String(<<195, 169>>)>>)
    /\ received = <<3, 2, 0, 1, 2, 195>>
    /\ out.err = "string length exceeds data"

\* the input has a Text at offset o whose length varint is well formed
TextAt(data, o) ==
    /\ o < Len(data)
    /\ data[o + 1] = TypeString
    /\ decodeVarint(SubSeq(data, o + 2, Len(data))).err = "nil"

DeclaredLength(data, o) == decodeVarint(SubSeq(data, o + 2, Len(data))).n

\* the offset of the first payload byte of the Text at offset o
PayloadStart(data, o) == o + 1 + decodeVarint(SubSeq(data, o + 2, Len(data))).consumed

\* C5 - a Text whose declared length, any uint64, is larger than the number
\* of bytes after the length varint fails with "string length exceeds
\* data", and no slice outside the input is taken.
C5_OversizedTextFails ==
    (/\ Decoded
     /\ TextAt(received, 0)
     /\ Gt64(DeclaredLength(received, 0),
             U64Of(Len(received) - PayloadStart(received, 0)))) =>
        /\ out.panic = "none"
        /\ out.err = "string length exceeds data"

\* the Text at offset o has all its declared bytes and they are not UTF-8
InvalidTextAt(data, o) ==
    /\ TextAt(data, o)
    /\ ~Gt64(DeclaredLength(data, o), U64Of(Len(data) - PayloadStart(data, o)))
    /\ ~ValidString(SubSeq(data, PayloadStart(data, o) + 1,
                           PayloadStart(data, o) + NatOf(DeclaredLength(data, o))))

\* the offsets at which the decoder looked for a value
ValuePositions == {out.calls[i] : i \in 1..Len(out.calls)}

\* C6 - UTF-8 rejection: when a Text at a value position, top level or
\* inside a list, has all its declared bytes and they are not valid UTF-8,
\* decoding fails with "invalid UTF-8 string" and returns no Text.
C6_InvalidUtf8Rejected ==
    (Decoded /\ \E o \in ValuePositions : InvalidTextAt(received, o)) =>
        /\ out.panic = "none"
        /\ out.err = "invalid UTF-8 string"
        /\ out.val = Nil
        /\ result.value = Nil

\* a Text inside a list whose payload is a lead byte followed by an ASCII
\* byte has been decoded
C6_Witness ==
    /\ Decoded
    /\ received = <<3, 1, 1, 2, 195, 127>>
    /\ out.err = "invalid UTF-8 string"
    /\ out.calls = <<0, 2>>

\* C7 - unknown tag rejection: when the byte at a value position, top level
\* or a child position of a list, is not one of the four tags, decoding of
\* the whole input fails with "unknown type tag".
C7_UnknownTagRejected ==
    (Decoded /\ \E o \in ValuePositions :
                    o < Len(received) /\ received[o + 1] \notin 0..3) =>
        /\ out.panic = "none"
        /\ out.err = "unknown type tag"
        /\ out.val = Nil

\* the tag 0x7F at the second child position of a list has been decoded
C7_Witness ==
    /\ Decoded
    /\ received = <<3, 2, 0, 127>>
    /\ out.calls = <<0, 2, 3>>
    /\ out.err = "unknown type tag"


\* the bytes encode returned, as they left the encoder
Encoded == pc \in {"wire", "wireOpen"} /\ change = "none"

RECURSIVE ScanValue(_, _)
RECURSIVE ScanValues(_, _, _)

\* the offset after k complete value encodings that start at offset o, or
\* -1 when the bytes hold fewer
ScanValues(data, o, k) ==
    IF o = -1 THEN -1
    ELSE IF k = 0 THEN o
    ELSE ScanValues(data, ScanValue(data, o), k - 1)

\* the offset after the complete value encoding (tag, length or count, and
\* payload or elements, whatever the payload bytes are) that starts at
\* offset o, or -1 when the bytes hold none
ScanValue(data, o) ==
    IF o >= Len(data) THEN -1
    ELSE LET tag == data[o + 1]
             v == decodeVarint(SubSeq(data, o + 2, Len(data)))
             start == o + 1 + v.consumed
         IN  CASE tag = 0 -> o + 1
               [] tag = 2 -> IF o + 5 <= Len(data) THEN o + 5 ELSE -1
               [] tag = 1 ->
                    IF v.err = "nil" /\ ~Gt64(v.n, U64Of(Len(data) - start))
                    THEN start + NatOf(v.n) ELSE -1
               [] tag = 3 ->
                    IF v.err = "nil" /\ ~Gt64(v.n, U64Of(Len(data) - start))
                    THEN ScanValues(data, start, NatOf(v.n)) ELSE -1
               [] OTHER -> -1

\* C12 - for every list encode is called on, the bytes returned hold, after
\* each 0x03 tag and count at every nesting level, as many complete element
\* encodings as the count declares, and nothing else: the declared count
\* never exceeds the elements written.
C12_CountMatchesElements ==
    (Encoded /\ toSend.type = "*DataInput") =>
        ScanValue(received, 0) = Len(received)

\* C13 - every Text payload encode writes is valid UTF-8: a host string
\* that is not well-formed UTF-8 is not written as a Text payload, so
\* decoding what encode returned never fails on invalid UTF-8.
C13_EncodedTextIsUtf8 ==
    /\ (Encoded /\ toSend.type = "string" /\ ~ValidString(toSend.str)) =>
          ~(/\ Len(received) > Len(toSend.str)
            /\ received[1] = TypeString
            /\ SubSeq(received, Len(received) - Len(toSend.str) + 1, Len(received))
                  = toSend.str)
    /\ (pc \in {"decoded", "decodedOpen"} /\ change = "none") =>
          out.err # "invalid UTF-8 string"


\* the four bytes of the two's-complement bit pattern of i, lowest first
TwosComplementLE(i) ==
    <<i % 256, (i \div 2^8) % 256, (i \div 2^16) % 256, (i \div 2^24) % 256>>

\* C14 - Int32 layout: encode(Int32(i)) is five bytes, the tag 0x02 and the
\* four bytes of i's two's-complement bit pattern, lowest byte first (42
\* gives 02 2A 00 00 00), and decoding them returns exactly i, also for 0,
\* -1, 2147483647 and -2147483648.
C14_Int32Layout ==
    /\ (Encoded /\ toSend.type = "int32") =>
          /\ Len(received) = 5
          /\ received[1] = 2
          /\ SubSeq(received, 2, 5) = TwosComplementLE(toSend.int)
          /\ toSend.int = 42 => received = <<2, 42, 0, 0, 0>>
          /\ toSend.int = 0 => received = <<2, 0, 0, 0, 0>>
          /\ toSend.int = -1 => received = <<2, 255, 255, 255, 255>>
          /\ toSend.int = MaxInt32 => received = <<2, 255, 255, 255, 127>>
          /\ toSend.int = MinInt32 => received = <<2, 0, 0, 0, 128>>
    /\ (pc = "decoded" /\ change = "none" /\ toSend.type = "int32") =>
          /\ out.err = "nil"
          /\ out.off = 5
          /\ result.panic = "none"
          /\ result.value.type = "int32"
          /\ result.value.int = toSend.int

\* -2147483648 has been encoded and decoded
C14_Witness ==
    /\ pc = "decoded"
    /\ change = "none"
    /\ toSend = Int32(MinInt32)
    /\ received = <<2, 0, 0, 0, 128>>
    /\ result.value = Int32(MinInt32)

\* C15 - Text layout: encode of a string s is the tag 0x01, encodeVarint of
\* the number of bytes (not characters) of s, and the bytes of s unchanged,
\* with nothing after them; "hello" gives 01 05 68 65 6C 6C 6F and the
\* empty string 01 00.
C15_TextLayout ==
    (Encoded /\ toSend.type = "string") =>
        LET s == toSend.str
            n == Len(s)
        IN  /\ received[1] = 1
            /\ Len(received) = 1 + VarintSize(U64Of(n)) + n
            /\ SubSeq(received, 2, Len(received) - n) = encodeVarint(U64Of(n))
            /\ SubSeq(received, Len(received) - n + 1, Len(received)) = s
            /\ s = <<104, 101, 108, 108, 111>> =>
                  received = <<1, 5, 104, 101, 108, 108, 111>>
            /\ s = <<>> => received = <<1, 0>>
            /\ s = <<226, 130, 172>> => received = <<1, 3, 226, 130, 172>>

\* a string of 127 "A" and one "é", 129 bytes and 128 characters, has been
\* encoded with the two-byte length 129
C15_Witness ==
    /\ Encoded
    /\ toSend.type = "string"
    /\ Len(toSend.str) = 129
    /\ SubSeq(received, 1, 3) = <<1, 129, 1>>
    /\ Len(received) = 132

\* encode(items[1]) ... encode(items[k]) concatenated
RECURSIVE EncodedItems(_)
EncodedItems(items) ==
    IF items = <<>> THEN <<>>
    ELSE encode(Head(items)) \o EncodedItems(Tail(items))

\* C16 - List layout: encode of a list of items x_1..x_k of the value model
\* is the tag 0x03, encodeVarint(k), and encode(x_1) ... encode(x_k) in
\* order; the empty list gives 03 00 and ["foo", 123] gives
\* 03 02 01 03 66 6F 6F 02 7B 00 00 00.
C16_ListLayout ==
    (pc = "wire" /\ change = "none" /\ toSend.type = "*DataInput") =>
        /\ received = <<3>> \o encodeVarint(U64Of(Len(toSend.elements)))
                           \o EncodedItems(toSend.elements)
        /\ toSend.elements = <<>> => received = <<3, 0>>
        /\ toSend = FooList =>
              received = <<3, 2, 1, 3, 102, 111, 111, 2, 123, 0, 0, 0>>

\* ["foo", 123] has been encoded
C16_Witness ==
    /\ pc = "wire"
    /\ change = "none"
    /\ toSend = FooList
    /\ Len(received) = 12

\* C17 - nested-list scenario: encode(List[Text("foo"), List[Text("bar"),
\* Int32(42)]]) is the 19 bytes
\* 03 02 01 03 66 6F 6F 03 02 01 03 62 61 72 02 2A 00 00 00.
C17_NestedScenario ==
    (pc = "wire" /\ change = "none" /\ toSend = FooBarList) =>
        /\ received = <<3, 2, 1, 3, 102, 111, 111,
                        3, 2, 1, 3, 98, 97, 114, 2, 42, 0, 0, 0>>
        /\ Len(received) = 19

\* the nested structure has been encoded
C17_Witness ==
    /\ pc = "wire"
    /\ change = "none"
    /\ toSend = FooBarList
    /\ received[8] = 3

\* C18 - trailing bytes are permitted: decode(encode(v) followed by t)
\* succeeds and is equal to v under compareDataInput; the decoder stops at
\* the end of encode(v) and reads no byte of t.
C18_TrailingBytesIgnored ==
    (pc = "decoded" /\ change = "trailing") =>
        /\ result.panic = "none"
        /\ out.err = "nil"
        /\ compareDataInput(toSend, result.value)
        /\ out.off = Len(received) - chunks
        /\ out.off = Len(encode(toSend))
        /\ \A i \in 1..Len(out.calls) : out.calls[i] < out.off

\* a list followed by the byte 0x03 has been decoded
C18_Witness ==
    /\ pc = "decoded"
    /\ change = "trailing"
    /\ toSend = NewDataInput(<<Nil, Int32(42)>>)
    /\ received = <<3, 2, 0, 2, 42, 0, 0, 0, 3>>
    /\ result.value = toSend


AnyDecoded == pc \in {"decoded", "decodedOpen", "decodedCraft"}

\* the input has a List at offset o whose count varint is well formed
ListAt(data, o) ==
    /\ o < Len(data)
    /\ data[o + 1] = TypeDataInput
    /\ decodeVarint(SubSeq(data, o + 2, Len(data))).err = "nil"

\* the offset at which child i (from 1) of a list starts when the children
\* before it decode and the first child starts at offset start
RECURSIVE ChildOffset(_, _, _)
ChildOffset(data, start, i) ==
    IF i = 1 THEN start
    ELSE decodeElement(data, ChildOffset(data, start, i - 1)).off

\* r, the outcome of decoding the List at offset o, is a list of exactly the
\* declared number of children, each what decoding at its place in the
\* input gives, or no value at all; and an error in r is the error of the
\* first child that fails, the children before it having decoded
ListContract(data, o, r) ==
    LET k == DeclaredLength(data, o)
        start == PayloadStart(data, o)
        child(i) == decodeElement(data, ChildOffset(data, start, i))
        n == Len(r.val.elements)
    IN  /\ r.val.type = "*DataInput" =>
              /\ r.err = "nil"
              /\ r.panic = "none"
              /\ U64Of(n) = k
              /\ \A i \in 1..n : child(i).err = "nil" /\ r.val.elements[i] = child(i).val
              /\ r.off = ChildOffset(data, start, n + 1)
        /\ r.val.type # "*DataInput" =>
              /\ r.val = Nil
              /\ r.off = 0
              /\ r.err # "nil" \/ r.panic # "none"
        /\ r.err # "nil" =>
              \E j \in 1..(Len(data) + 1) :
                  /\ MoreElements(j - 1, k)
                  /\ \A i \in 1..(j - 1) : child(i).err = "nil" /\ child(i).panic = "none"
                  /\ child(j).err = r.err

\* C19 - decoding a List with declared count k returns a list of exactly k
\* children in wire order or fails as a whole: when a child fails, or the
\* input ends before k children are read, that child's error is returned
\* and no list of the children decoded so far is returned.
C19_ListAllOrNothing ==
    AnyDecoded =>
        \A o \in ValuePositions :
            ListAt(received, o) =>
                ListContract(received, o,
                             IF o = 0 THEN out ELSE decodeElement(received, o))

\* a list declaring three children of which the input holds two has been
\* decoded: the error of the third is returned and no list
C19_Witness ==
    /\ AnyDecoded
    /\ received = <<3, 3, 0, 0>>
    /\ out.calls = <<0, 2, 3, 4>>
    /\ out.err = "unexpected end of data"
    /\ out.val = Nil

\* C20 - termination bounded by input size: decode of any byte sequence
\* ends, and it enters decodeElement at most len(input) + 1 times whatever
\* counts the input declares.
C20_CallsBoundedByInput ==
    AnyDecoded => Len(out.calls) <= Len(received) + 1

\* a list declaring 127 children in an input of four bytes has been decoded
C20_Witness ==
    /\ AnyDecoded
    /\ received = <<3, 127, 0, 0>>
    /\ Len(out.calls) = 4
    /\ out.err = "unexpected end of data"

ConsumedEntirely ==
    /\ out.err = "nil" /\ out.panic = "none"
    /\ out.off = Len(received)

\* the length or count of every Text and List the decoder reached is
\* written in as many bytes as encodeVarint writes for its value
MinimalVarints ==
    \A o \in ValuePositions :
        (o < Len(received) /\ received[o + 1] \in {TypeString, TypeDataInput}) =>
            LET v == decodeVarint(SubSeq(received, o + 2, Len(received)))
            IN  v.err = "nil" => v.consumed = Len(encodeVarint(v.n))

\* C23 - reverse round trip: when the bytes b decode successfully, the
\* top-level value uses all of b and every varint in it has minimal length,
\* encode(decode(b)) is b; when some varint is longer than minimal,
\* encode(decode(b)) differs from b, and 01 80 00 (a Text of length 0
\* written in two bytes) decodes to the empty Text, which encodes as 01 00.
C23_ReverseRoundTrip ==
    /\ (AnyDecoded /\ ConsumedEntirely /\ MinimalVarints) =>
          encode(result.value) = received
    /\ (AnyDecoded /\ ConsumedEntirely /\ ~MinimalVarints) =>
          encode(result.value) # received
    /\ (AnyDecoded /\ received = <<TypeString, 128, 0>>) =>
          /\ ConsumedEntirely
          /\ result.value = String(<<>>)
          /\ encode(result.value) = <<TypeString, 0>>

\* crafted bytes in canonical form, a List holding the empty Text, have
\* been decoded and used up
C23_Witness ==
    /\ pc = "decodedCraft"
    /\ received = <<TypeDataInput, 1, TypeString, 0>>
    /\ ConsumedEntirely
    /\ MinimalVarints
    /\ result.value = NewDataInput(<<String(<<>>)>>)

\* the nesting depth of a value: 1 for a scalar, 1 + the deepest child for
\* a list (1 for the empty list)
RECURSIVE NestingDepth(_)
NestingDepth(v) ==
    IF v.type # "*DataInput" THEN 1
    ELSE LET depths == {NestingDepth(v.elements[i]) : i \in 1..Len(v.elements)}
         IN  1 + (IF depths = {} THEN 0
                  ELSE CHOOSE d \in depths : \A e \in depths : e <= d)

\* C24 - recursion depth equals tree depth: decoding encode(v) succeeds
\* whatever the nesting depth of v is, and the most calls of decodeElement
\* active at once while it ran is the nesting depth of v.
C24_DepthEqualsNesting ==
    (pc = "decoded" /\ change = "none") =>
        /\ out.err = "nil" /\ out.panic = "none"
        /\ out.depth = NestingDepth(toSend)

\* the deepest chain of lists of the model has been decoded from its
\* encoding with as many calls active at once as it has lists
C24_Witness ==
    /\ pc = "decoded" /\ change = "none"
    /\ toSend = DeepList(MaxDepth)
    /\ NestingDepth(toSend) = MaxDepth
    /\ out.depth = MaxDepth
    /\ Len(out.calls) = MaxDepth

----------------------------------------------------------------------------
(* BatchEncoder.EncodeBatch: the caller fills results itself when the      *)
(* batch is small, and otherwise starts b.workers goroutines that each     *)
(* fill one chunk of results while the caller waits on the WaitGroup.      *)
(* Every assignment results[i] = encode(inputs[i]) is one step, and the    *)
(* steps of the goroutines and of the spawning loop interleave freely.     *)

\* most goroutines a BatchEncoder is built with
MaxWorkers == 5

\* longest slice handed to EncodeBatch
MaxBatch == 11

\* values a batch is made of; neighbours in a batch differ
BatchItems == <<Nil, Int32(42), String(<<195, 169>>), FooList>>

\* a batch of n values
InputSlice(n, shift) ==
    [k \in 1..n |-> BatchItems[((k - 1 + shift) % Len(BatchItems)) + 1]]

\* `if len(inputs) < b.workers*2`
UseSequential(n, wk) == n < wk * 2

\* the chunk size rounded down
ChunkSize_Floor(n, wk) == n \div wk

\* `chunkSize := (len(inputs) + b.workers - 1) / b.workers`
ChunkSize(n, wk) == (n + wk - 1) \div wk

\* `end := start + chunkSize; if end > len(inputs) { end = len(inputs) }`
ChunkEnd(start, chunkSize, n) ==
    IF start + chunkSize > n THEN n ELSE start + chunkSize

\* NewBatchEncoder(wk).EncodeBatch(ins) up to the choice of the path
EncodeBatch(wk, ins) ==
    /\ bpc = "idle"
    /\ workers' = wk
    /\ inputs' = ins
    /\ results' = [k \in 1..Len(ins) |-> <<>>]
    /\ writers' = [k \in 1..Len(ins) |-> <<>>]
    /\ idx' = 0
    /\ spawned' = 0
    /\ wg' = 0
    /\ goroutines' = <<>>
    /\ bpc' = IF UseSequential(Len(ins), wk) THEN "sequential" ELSE "spawn"
    /\ UNCHANGED <<codecVars, varintVars>>

\* one iteration of `for i, input := range inputs`
SequentialStep ==
    /\ bpc = "sequential"
    /\ idx < Len(inputs)
    /\ results' = [results EXCEPT ![idx + 1] = encode(inputs[idx + 1])]
    /\ writers' = [writers EXCEPT ![idx + 1] = Append(@, -1)]
    /\ idx' = idx + 1
    /\ UNCHANGED <<bpc, workers, inputs, spawned, wg, goroutines, codecVars, varintVars>>

\* the sequential loop is over: `return results`
SequentialReturn ==
    /\ bpc = "sequential"
    /\ idx = Len(inputs)
    /\ bpc' = "returned"
    /\ UNCHANGED <<workers, inputs, results, writers, idx, spawned, wg, goroutines,
                   codecVars, varintVars>>

\* one iteration of `for w := 0; w < b.workers; w++`: wg.Add(1) and the go
\* statement; after the last one the caller is at wg.Wait()
Spawn ==
    /\ bpc = "spawn"
    /\ spawned < workers
    /\ LET chunkSize == ChunkSize(Len(inputs), workers)
           start == spawned * chunkSize
           end == ChunkEnd(start, chunkSize, Len(inputs))
       IN  goroutines' = Append(goroutines,
                                [start |-> start, end |-> end, i |-> start,
                                 done |-> FALSE])
    /\ wg' = wg + 1
    /\ spawned' = spawned + 1
    /\ bpc' = IF spawned + 1 < workers THEN "spawn" ELSE "wait"
    /\ UNCHANGED <<workers, inputs, results, writers, idx, codecVars, varintVars>>

\* goroutine g runs one iteration of `for i := start; i < end; i++`
Work(g) ==
    /\ g \in 1..Len(goroutines)
    /\ ~goroutines[g].done
    /\ goroutines[g].i < goroutines[g].end
    /\ LET i == goroutines[g].i
       IN  /\ results' = [results EXCEPT ![i + 1] = encode(inputs[i + 1])]
           /\ writers' = [writers EXCEPT ![i + 1] = Append(@, g - 1)]
           /\ goroutines' = [goroutines EXCEPT ![g].i = i + 1]
    /\ UNCHANGED <<bpc, workers, inputs, idx, spawned, wg, codecVars, varintVars>>

\* goroutine g leaves its loop: the deferred wg.Done()
Done(g) ==
    /\ g \in 1..Len(goroutines)
    /\ ~goroutines[g].done
    /\ goroutines[g].i >= goroutines[g].end
    /\ goroutines' = [goroutines EXCEPT ![g].done = TRUE]
    /\ wg' = wg - 1
    /\ UNCHANGED <<bpc, workers, inputs, results, writers, idx, spawned,
                   codecVars, varintVars>>

\* wg.Wait() returns when the counter is zero: `return results`
Wait ==
    /\ bpc = "wait"
    /\ wg = 0
    /\ bpc' = "returned"
    /\ UNCHANGED <<workers, inputs, results, writers, idx, spawned, wg, goroutines,
                   codecVars, varintVars>>

BatchNext ==
    \/ \E wk \in 1..MaxWorkers, n \in 0..MaxBatch, shift \in 0..(Len(BatchItems) - 1) :
          EncodeBatch(wk, InputSlice(n, shift))
    \/ SequentialStep
    \/ SequentialReturn
    \/ Spawn
    \/ \E g \in 1..MaxWorkers : Work(g)
    \/ \E g \in 1..MaxWorkers : Done(g)
    \/ Wait

SpecBatch == Init /\ [][BatchNext]_vars

----------------------------------------------------------------------------
(* Claims about EncodeBatch, checked under SpecBatch. *)

\* C21: under every interleaving no index of results is assigned twice
\* (so no two workers assign the same index), and when EncodeBatch returns
\* every index has been assigned exactly once and results[i] is
\* encode(inputs[i]) for every i, on the parallel path as on the
\* sequential one.
C21_ParallelEncodingSafe ==
    /\ Len(results) = Len(inputs)
    /\ \A k \in 1..Len(writers) : Len(writers[k]) <= 1
    /\ bpc = "returned" =>
          \A k \in 1..Len(inputs) :
              /\ Len(writers[k]) = 1
              /\ results[k] = encode(inputs[k])

\* a batch on the parallel path has returned; its last goroutine was handed
\* a start beyond the end of the slice, and several goroutines have written
C21_Witness ==
    /\ bpc = "returned"
    /\ Len(goroutines) >= 2
    /\ \E g \in 1..Len(goroutines) : goroutines[g].start > goroutines[g].end
    /\ \E j, k \in 1..Len(writers) :
          /\ writers[j] # <<>> /\ writers[k] # <<>>
          /\ writers[j][1] >= 0 /\ writers[k][1] >= 0
          /\ writers[j][1] # writers[k][1]

====
